---- MODULE Spec2Model ----
(***************************************************************************)
(* Hashstack V0 interest-rate handler                                      *)
(* (data_handler/handlers/loan_states/hashtack_v0/interest_rate.py).       *)
(*                                                                         *)
(* The module models HashstackV0InterestRate: the pagination planner       *)
(* _get_blocks_bounds, the fetch step _set_events, the event fold          *)
(* calculate_interest_rates (one step per event of the for loop) and the   *)
(* loop of run().  Three specifications are given:                         *)
(*   Spec      - run() against a chain of events and a chain height;       *)
(*   SpecFold  - calculate_interest_rates called on successive slices of   *)
(*               an ordered event list (the fold on its own);              *)
(*   SpecPlan  - _get_blocks_bounds applied to arbitrary integers.         *)
(*                                                                         *)
(* Decimal values (the cumulative rates) are held as integers counting     *)
(* units of 10^-6: Decimal("0.0001") is 100 units, 0.01 is 10000 units.    *)
(* Every event timestamp of the model is BaseTs + k * TsStep with TsStep   *)
(* half a year, so every quotient by SECONDS_IN_YEAR the code forms is an  *)
(* exact decimal and no rounding of the Decimal context is involved.       *)
(*                                                                         *)
(* InterestRateState (handlers.helpers), TOKEN_MAPPING and the event       *)
(* source are not part of the file modelled; they follow the design        *)
(* document: a state built from a persisted record takes the record's      *)
(* rates and gives every token the record's timestamp, a state built from  *)
(* nothing starts at zero; the event source answers a window with the      *)
(* events of the blocks start <= b < end.                                  *)
(***************************************************************************)
EXTENDS Integers, Sequences, FiniteSets, TLC

VARIABLES
    chain,                \* the events the event source holds, in emission order
    latest_block,         \* the chain height NET.get_block_number() returns
    seed,                 \* what the database returned at construction (line 32)
    last_block_data,      \* self.last_block_data: <<>> is None, <<r>> a record
    events,               \* self.events
    events_over_attr,     \* self._events_over
    pc,                   \* position of the running method
    start_block,          \* run(): local start_block
    end_block,            \* run(): local end_block
    events_over,          \* run(): local events_over
    interest_rate_state,  \* calculate_interest_rates: local interest_rate_state
    index,                \* calculate_interest_rates: position of the for loop
    blocks_data,          \* calculate_interest_rates: local blocks_data
    db,                   \* every record handed to write_batch_to_db, in order
    fetched,              \* every window handed to api_connector.get_data, in order
    seen,                 \* tokens a current_apr event has been folded for
    cursor                \* SpecFold: how much of chain has been handed to the fold

vars == <<chain, latest_block, seed, last_block_data, events, events_over_attr, pc,
          start_block, end_block, events_over, interest_rate_state, index,
          blocks_data, db, fetched, seen, cursor>>

-----------------------------------------------------------------------------
(* Program constants *)

PAGINATION_SIZE == 1000

SECONDS_IN_YEAR == 31536000

\* Decimal("0.0001") in units of 10^-6
percents_decimals_shift == 100

HASHSTACK_ID == "Hashstack_v0"

-----------------------------------------------------------------------------
(* Bounds of the model *)

\* block numbers of the run model are multiples of half a page
BlockUnit == PAGINATION_SIZE \div 2

\* events of the run model lie in blocks 0, BlockUnit, .., MaxEventK * BlockUnit
MaxEventK == 5

\* chain heights of the run model are 0, BlockUnit, .., MaxLatestK * BlockUnit
MaxLatestK == 10

\* longest chain of the run model
MaxRunEvents == 2

\* longest event list of the fold model
MaxFoldEvents == 3

\* the fold model's events lie in blocks FoldBlockBase .. FoldBlockBase + MaxFoldBlockK
FoldBlockBase == 100
MaxFoldBlockK == 2

\* timestamps start at BaseTs; successive events of a fold-model list lie
\* g * TsStep apart, g in 1 .. MaxTsGap
BaseTs == 1000
MaxTsGap == 2

\* the planner model draws its integers around multiples of BlockUnit up to MaxPlanK
MaxPlanK == 3

TsStep == SECONDS_IN_YEAR \div 2

-----------------------------------------------------------------------------
(* Tokens, events *)

\* TOKEN_MAPPING: token identifier (first data field) -> token name
TOKEN_MAPPING == [a \in {"0x1", "0x2"} |-> IF a = "0x1" THEN "ETH" ELSE "USDC"]

Tokens == {TOKEN_MAPPING[a] : a \in DOMAIN TOKEN_MAPPING}

\* TOKEN_MAPPING.get(identifier, "")
TokenName(identifier) ==
    IF identifier \in DOMAIN TOKEN_MAPPING THEN TOKEN_MAPPING[identifier] ELSE ""

\* int(s, 16) for a hexadecimal literal given as its digits, most significant first
RECURSIVE HexToInt(_)
HexToInt(digits) ==
    IF digits = <<>> THEN 0
    ELSE 16 * HexToInt(SubSeq(digits, 1, Len(digits) - 1)) + digits[Len(digits)]

\* key_name and data of the events the model draws: an accruing event for each
\* token, an event of an unknown token and an event of another kind
EventShapes ==
    { [key_name |-> "current_apr", data |-> <<"0x1", <<6, 4>>, <<3, 2>>>>],
      [key_name |-> "current_apr", data |-> <<"0x2", <<3, 2>>, <<0>>>>],
      [key_name |-> "current_apr", data |-> <<"0x9", <<6, 4>>, <<3, 2>>>>],
      [key_name |-> "updated_apr", data |-> <<"0x1", <<6, 4>>, <<3, 2>>>>] }

MkEvent(block, ts, shape) ==
    [block_number |-> block, timestamp |-> ts,
     key_name |-> shape.key_name, data |-> shape.data]

\* a chain's block timestamp: later blocks carry later timestamps
BlockTimestamp(block) == BaseTs + (block \div BlockUnit) * TsStep

RunEvents ==
    { MkEvent(k * BlockUnit, BlockTimestamp(k * BlockUnit), s) :
        k \in 0..MaxEventK, s \in EventShapes }

\* event lists in emission order: block number ascending, time not running back
Ordered(list) ==
    \A i \in 1..(Len(list) - 1) :
        /\ list[i].block_number <= list[i + 1].block_number
        /\ list[i].timestamp <= list[i + 1].timestamp

SeqsUpTo(S, n) == UNION { [1..m -> S] : m \in 0..n }

\* chains of the run model under a chain height: ordered, nothing above the height
RunChains(height) ==
    { c \in SeqsUpTo(RunEvents, MaxRunEvents) :
        Ordered(c) /\ \A i \in 1..Len(c) : c[i].block_number <= height }

\* event lists of the fold model: a block offset and a shape for each position,
\* the timestamps a fixed gap apart
FoldSlots == (0..MaxFoldBlockK) \X EventShapes

FoldChains ==
    { [i \in 1..Len(c) |->
          MkEvent(FoldBlockBase + c[i][1], BaseTs + (i - 1) * g * TsStep, c[i][2])] :
        c \in { d \in SeqsUpTo(FoldSlots, MaxFoldEvents) :
                    \A i \in 1..(Len(d) - 1) : d[i][1] <= d[i + 1][1] },
        g \in 1..MaxTsGap }

-----------------------------------------------------------------------------
(* InterestRate records and InterestRateState (handlers.helpers) *)

None == <<>>

ZeroRates == [t \in Tokens |-> 0]

\* InterestRateState(current_block, last_block_data)
NewInterestRateState(current_block, lbd) ==
    [ current_block |-> current_block,
      current_timestamp |-> IF lbd = None THEN 0 ELSE lbd[1].timestamp,
      token_timestamps |-> [t \in Tokens |-> IF lbd = None THEN 0 ELSE lbd[1].timestamp],
      collateral |-> IF lbd = None THEN ZeroRates ELSE lbd[1].collateral,
      debt |-> IF lbd = None THEN ZeroRates ELSE lbd[1].debt ]

\* InterestRateState.get_seconds_passed
get_seconds_passed(st, token_name) ==
    st.current_timestamp - st.token_timestamps[token_name]

\* InterestRateState.update_state_cumulative_data
update_state_cumulative_data(st, token_name, block, collateral_change, debt_change) ==
    [ st EXCEPT !.collateral[token_name] = @ + collateral_change,
                !.debt[token_name] = @ + debt_change,
                !.token_timestamps[token_name] = st.current_timestamp,
                !.current_block = block ]

\* InterestRateState.build_interest_rate_model
build_interest_rate_model(st, protocol_id) ==
    [ protocol_id |-> protocol_id,
      block |-> st.current_block,
      timestamp |-> st.current_timestamp,
      collateral |-> st.collateral,
      debt |-> st.debt ]

-----------------------------------------------------------------------------
(* _get_blocks_bounds *)

\* the first test made without the page added to end_block
get_blocks_bounds_early(start, end, latest) ==
    IF end < latest
    THEN IF start + end + PAGINATION_SIZE <= latest
         THEN <<start + end, end + PAGINATION_SIZE>>
         ELSE <<start + end, latest>>
    ELSE <<start, latest>>

\* the planner without the clamp of line 125: a window near the tip is handed back
\* as it came
get_blocks_bounds_noclamp(start, end, latest) ==
    IF end + PAGINATION_SIZE < latest
    THEN IF start + end + PAGINATION_SIZE <= latest
         THEN <<start + end, end + PAGINATION_SIZE>>
         ELSE <<start + end, latest>>
    ELSE <<start, end>>

\* lines 122-131
get_blocks_bounds(start, end, latest) ==
    IF end + PAGINATION_SIZE < latest
    THEN IF start + end + PAGINATION_SIZE <= latest
         THEN <<start + end, end + PAGINATION_SIZE>>
         ELSE <<start + end, latest>>
    ELSE <<start, latest>>

-----------------------------------------------------------------------------
(* api_connector.get_data *)

\* DeRiskAPIConnector.get_data on success: the events of the blocks start <= b < end
get_data(start, end) ==
    SelectSeq(chain, LAMBDA e : start <= e.block_number /\ e.block_number < end)

-----------------------------------------------------------------------------
(* calculate_interest_rates *)

\* _add_block_data: append the entry and remember it as last_block_data
add_block_data(f, interest_rate_entry) ==
    [ f EXCEPT !.blocks_data = Append(@, interest_rate_entry),
               !.last_block_data = <<interest_rate_entry>> ]

\* the emission of lines 81-82 made after current_block has moved to the event's block
at_boundary_new_block(f, event) ==
    IF f.state.current_block # event.block_number
    THEN add_block_data(f, build_interest_rate_model(
                               [f.state EXCEPT !.current_block = event.block_number],
                               HASHSTACK_ID))
    ELSE f

\* lines 81-82: a block number other than current_block emits the state as it stands
at_boundary(f, event) ==
    IF f.state.current_block # event.block_number
    THEN add_block_data(f, build_interest_rate_model(f.state, HASHSTACK_ID))
    ELSE f

\* the test of lines 85-86 made on the token alone
is_skipped_token_only(event) == TokenName(event.data[1]) = ""

\* lines 85-86: unknown token or another kind of event
is_skipped(event) ==
    TokenName(event.data[1]) = "" \/ event.key_name # "current_apr"

\* the skipped event leaving current_block as it was
skip_event_stale(st, event) == st

\* lines 87-88
skip_event(st, event) == [st EXCEPT !.current_block = event.block_number]

\* the test of line 91 made with "and" for "or"
is_first_token_event_and(lbd, st, event) ==
    lbd = None /\ st.token_timestamps[TokenName(event.data[1])] = 0

\* line 91, read after the emission of lines 81-82
is_first_token_event(lbd, st, event) ==
    lbd = None \/ st.token_timestamps[TokenName(event.data[1])] = 0

\* lines 92-94
baseline_event(st, event) ==
    [ st EXCEPT !.token_timestamps[TokenName(event.data[1])] = event.timestamp,
                !.current_block = event.block_number ]

\* lines 104-105: (apr * seconds_passed / SECONDS_IN_YEAR) * Decimal("0.0001"), in
\* units of 10^-6.  seconds_passed is a multiple of TsStep, which is cancelled from
\* the quotient before multiplying.
current_change(apr_bps, seconds_passed) ==
    (apr_bps * (seconds_passed \div TsStep) * percents_decimals_shift)
        \div (SECONDS_IN_YEAR \div TsStep)

\* lines 97-108
accrue_event(st, event) ==
    LET token_name == TokenName(event.data[1])
        st1 == [st EXCEPT !.current_timestamp = event.timestamp]
        seconds_passed == get_seconds_passed(st1, token_name)
        borrow_apr_bps == HexToInt(event.data[2])
        supply_apr_bps == HexToInt(event.data[3])
    IN  update_state_cumulative_data(
            st1, token_name, event.block_number,
            current_change(supply_apr_bps, seconds_passed),
            current_change(borrow_apr_bps, seconds_passed))

\* which of the three branches of the loop body (lines 86, 91, 97) an event takes
event_branch(f, event) ==
    IF is_skipped(event) THEN "skip"
    ELSE IF is_first_token_event(at_boundary(f, event).last_block_data, f.state, event)
         THEN "baseline"
         ELSE "accrue"

\* one pass of the for loop, lines 79-108
fold_event(f, event) ==
    LET b == at_boundary(f, event)
        kind == event_branch(f, event)
    IN  [ b EXCEPT !.state =
            CASE kind = "skip" -> skip_event(f.state, event)
              [] kind = "baseline" -> baseline_event(f.state, event)
              [] kind = "accrue" -> accrue_event(f.state, event) ]

\* lines 75-77: the locals of calculate_interest_rates for a non-empty list
enter_fold(lbd, event_list) ==
    [ blocks_data |-> <<>>,
      last_block_data |-> lbd,
      state |-> NewInterestRateState(event_list[1].block_number, lbd) ]

\* lines 110-112: the final emission
finish_fold(f) ==
    add_block_data(f, build_interest_rate_model(f.state, HASHSTACK_ID))

RECURSIVE fold_from(_, _, _)
fold_from(f, event_list, i) ==
    IF i > Len(event_list) THEN f
    ELSE fold_from(fold_event(f, event_list[i]), event_list, i + 1)

\* calculate_interest_rates as a whole, lines 73-112
calculate_interest_rates(lbd, event_list) ==
    IF event_list = <<>>
    THEN [blocks_data |-> <<>>, last_block_data |-> lbd,
          state |-> NewInterestRateState(0, lbd)]
    ELSE finish_fold(fold_from(enter_fold(lbd, event_list), event_list, 1))

\* the locals of the running calculate_interest_rates with self.last_block_data
Frame ==
    [ blocks_data |-> blocks_data,
      last_block_data |-> last_block_data,
      state |-> interest_rate_state ]

SetFrame(f) ==
    /\ blocks_data' = f.blocks_data
    /\ last_block_data' = f.last_block_data
    /\ interest_rate_state' = f.state

\* one pass of the for loop over events[index], taking the given branch
FoldStep(branch) ==
    /\ pc = "fold"
    /\ index <= Len(events)
    /\ event_branch(Frame, events[index]) = branch
    /\ SetFrame(fold_event(Frame, events[index]))
    /\ seen' = IF branch = "skip" THEN seen
               ELSE seen \cup {TokenName(events[index].data[1])}
    /\ index' = index + 1
    /\ UNCHANGED <<chain, latest_block, seed, events, events_over_attr, pc, start_block,
                   end_block, events_over, db, fetched, cursor>>

\* lines 86-88
FoldSkip ==
    /\ pc = "fold"
    /\ FoldStep("skip")

\* lines 91-94
FoldBaseline ==
    /\ pc = "fold"
    /\ FoldStep("baseline")

\* lines 97-108
FoldAccrue ==
    /\ pc = "fold"
    /\ FoldStep("accrue")

\* lines 110-112: the final emission, and the return to the caller at next_pc
FoldReturn(next_pc, written) ==
    /\ pc = "fold"
    /\ index > Len(events)
    /\ SetFrame([finish_fold(Frame) EXCEPT !.state = interest_rate_state])
    /\ db' = IF written THEN db \o finish_fold(Frame).blocks_data ELSE db
    /\ pc' = next_pc
    /\ UNCHANGED <<chain, latest_block, seed, events, events_over_attr, start_block,
                   end_block, events_over, index, fetched, seen, cursor>>

-----------------------------------------------------------------------------
(* run *)

NoState == NewInterestRateState(0, None)

\* a persisted record
Persisted(block, timestamp, collateral, debt) ==
    <<[protocol_id |-> HASHSTACK_ID, block |-> block, timestamp |-> timestamp,
       collateral |-> collateral, debt |-> debt]>>

\* what the database holds when the handler is constructed: nothing, a record
\* written before any event accrued, or a record carrying accrued rates
Seeds(block, timestamp) ==
    { None,
      Persisted(block, 0, ZeroRates, ZeroRates),
      Persisted(block, timestamp,
                [t \in Tokens |-> 2 * percents_decimals_shift],
                [t \in Tokens |-> 4 * percents_decimals_shift]) }

InitObject ==
    /\ last_block_data = seed
    /\ events = <<>>
    /\ events_over_attr = FALSE
    /\ start_block = 0
    /\ end_block = 0
    /\ events_over = FALSE
    /\ interest_rate_state = NoState
    /\ index = 0
    /\ blocks_data = <<>>
    /\ db = <<>>
    /\ fetched = <<>>
    /\ seen = IF seed = None THEN {} ELSE Tokens
    /\ cursor = 0

Init ==
    /\ latest_block \in {k * BlockUnit : k \in 0..MaxLatestK}
    /\ chain \in RunChains(latest_block)
    /\ seed \in Seeds(BlockUnit, BlockTimestamp(BlockUnit))
    /\ pc = "init"
    /\ InitObject

\* the test made only for a resume point above the chain height
caught_up_past(start, latest) == start > latest

\* line 137: the resume point is the chain height
caught_up(start, latest) == start = latest

\* lines 135-144
RunStart ==
    /\ pc = "init"
    /\ LET start == IF last_block_data = None THEN 0 ELSE last_block_data[1].block
           w == get_blocks_bounds(start, start + PAGINATION_SIZE, latest_block)
       IN  IF caught_up(start, latest_block)
           THEN /\ pc' = "done"
                /\ UNCHANGED <<start_block, end_block>>
           ELSE /\ pc' = "loop"
                /\ start_block' = w[1]
                /\ end_block' = w[2]
    /\ events_over' = FALSE
    /\ UNCHANGED <<chain, latest_block, seed, last_block_data, events, events_over_attr,
                   interest_rate_state, index, blocks_data, db, fetched, seen, cursor>>

\* the test made without the case of a window ending exactly at latest_block
reached_latest_strict(end, latest) == end > latest

\* line 147: the window's end has reached the chain height
reached_latest(end, latest) == end >= latest

\* the pass of the while loop with the window advanced only after a window that
\* returned events
RunIteration_no_advance(new_events, error) ==
    /\ pc = "loop"
    /\ ~events_over
    /\ events_over' = (end_block >= latest_block)
    /\ fetched' = Append(fetched, [start_block |-> start_block, end_block |-> end_block,
                                   events |-> new_events])
    /\ events' = new_events
    /\ events_over_attr' = (events_over_attr \/ error)
    /\ IF new_events = <<>>
       THEN /\ pc' = "loop"
            /\ UNCHANGED <<start_block, end_block, interest_rate_state, index,
                           blocks_data>>
       ELSE /\ pc' = "fold"
            /\ LET w == get_blocks_bounds(start_block, end_block, latest_block)
               IN  /\ start_block' = w[1]
                   /\ end_block' = w[2]
            /\ index' = 1
            /\ blocks_data' = enter_fold(last_block_data, new_events).blocks_data
            /\ interest_rate_state' = enter_fold(last_block_data, new_events).state
    /\ UNCHANGED <<chain, latest_block, seed, last_block_data, db, seen, cursor>>

\* lines 146-153: one pass of the while loop up to the call of
\* calculate_interest_rates, the event source answering new_events (error: an error)
RunIteration(new_events, error) ==
    /\ pc = "loop"
    /\ ~events_over
    /\ events_over' = reached_latest(end_block, latest_block)
    /\ fetched' = Append(fetched, [start_block |-> start_block, end_block |-> end_block,
                                   events |-> new_events])
    /\ events' = new_events
    /\ events_over_attr' = (events_over_attr \/ error)
    /\ LET w == get_blocks_bounds(start_block, end_block, latest_block)
       IN  /\ start_block' = w[1]
           /\ end_block' = w[2]
    /\ IF new_events = <<>>
       THEN /\ pc' = "loop"
            /\ UNCHANGED <<interest_rate_state, index, blocks_data>>
       ELSE /\ pc' = "fold"
            /\ index' = 1
            /\ blocks_data' = enter_fold(last_block_data, new_events).blocks_data
            /\ interest_rate_state' = enter_fold(last_block_data, new_events).state
    /\ UNCHANGED <<chain, latest_block, seed, last_block_data, db, seen, cursor>>

\* _set_events, lines 46-51 and 57: the event source answers with a list
RunFetch ==
    /\ pc = "loop"
    /\ RunIteration(get_data(start_block, end_block), FALSE)

\* _set_events, lines 46-56: the event source answers with an error
RunFetchError ==
    /\ pc = "loop"
    /\ RunIteration(<<>>, TRUE)

\* lines 153-154: calculate_interest_rates returns and the batch is written
RunWrite ==
    /\ pc = "fold"
    /\ FoldReturn("loop", TRUE)

\* line 146: the while condition fails
RunExit ==
    /\ pc = "loop"
    /\ events_over
    /\ pc' = "done"
    /\ UNCHANGED <<chain, latest_block, seed, last_block_data, events, events_over_attr,
                   start_block, end_block, events_over, interest_rate_state, index,
                   blocks_data, db, fetched, seen, cursor>>

Next ==
    \/ RunStart
    \/ RunFetch
    \/ RunFetchError
    \/ FoldSkip
    \/ FoldBaseline
    \/ FoldAccrue
    \/ RunWrite
    \/ RunExit

Spec == Init /\ [][Next]_vars

\* run() is one sequential call: while it has a step to take, it takes one
SpecLive == Init /\ [][Next]_vars /\ WF_vars(Next)

-----------------------------------------------------------------------------
(* calculate_interest_rates on its own: a caller hands it an ordered event list *)
(* window by window, each window ending where the block number changes         *)

InitFold ==
    /\ chain \in FoldChains
    /\ latest_block = 0
    /\ seed \in Seeds(FoldBlockBase, BaseTs)
    /\ pc = "idle"
    /\ InitObject

\* a window may end at position k: the list ends there or the block number changes
WindowEnd(k) ==
    IF k = Len(chain) THEN TRUE ELSE chain[k].block_number # chain[k + 1].block_number

\* the caller sets self.events to the next window and calls the fold (lines 73-77)
CallFold ==
    /\ pc = "idle"
    /\ \E k \in (cursor + 1)..Len(chain) :
        /\ WindowEnd(k)
        /\ events' = SubSeq(chain, cursor + 1, k)
        /\ cursor' = k
        /\ blocks_data' = enter_fold(last_block_data, events').blocks_data
        /\ interest_rate_state' = enter_fold(last_block_data, events').state
    /\ index' = 1
    /\ pc' = "fold"
    /\ UNCHANGED <<chain, latest_block, seed, last_block_data, events_over_attr,
                   start_block, end_block, events_over, db, fetched, seen>>

\* the fold called with no events returns the empty list (lines 73-74)
CallFoldEmpty ==
    /\ pc = "idle"
    /\ events' = <<>>
    /\ blocks_data' = calculate_interest_rates(last_block_data, <<>>).blocks_data
    /\ UNCHANGED <<chain, latest_block, seed, last_block_data, events_over_attr, pc,
                   start_block, end_block, events_over, interest_rate_state, index, db,
                   fetched, seen, cursor>>

\* lines 110-112: the fold returns to its caller
ReturnFold ==
    /\ pc = "fold"
    /\ FoldReturn("idle", FALSE)

NextFold ==
    \/ CallFold
    \/ CallFoldEmpty
    \/ FoldSkip
    \/ FoldBaseline
    \/ FoldAccrue
    \/ ReturnFold

SpecFold == InitFold /\ [][NextFold]_vars

-----------------------------------------------------------------------------
(* _get_blocks_bounds on its own, applied to arbitrary integers and then to   *)
(* its own result as run() does at line 150                                   *)

PlanInts == { k * BlockUnit + d : k \in (0 - MaxPlanK)..MaxPlanK, d \in {0 - 1, 0, 1} }

InitPlan ==
    /\ chain = <<>>
    /\ latest_block \in PlanInts
    /\ seed = None
    /\ pc = "plan"
    /\ last_block_data = seed
    /\ events = <<>>
    /\ events_over_attr = FALSE
    /\ start_block \in PlanInts
    /\ end_block \in PlanInts
    /\ events_over = FALSE
    /\ interest_rate_state = NoState
    /\ index = 0
    /\ blocks_data = <<>>
    /\ db = <<>>
    /\ fetched = <<>>
    /\ seen = {}
    /\ cursor = 0

Plan ==
    /\ pc \in {"plan", "planned"}
    /\ LET w == get_blocks_bounds(start_block, end_block, latest_block)
       IN  /\ start_block' = w[1]
           /\ end_block' = w[2]
    /\ pc' = "planned"
    /\ UNCHANGED <<chain, latest_block, seed, last_block_data, events, events_over_attr,
                   events_over, interest_rate_state, index, blocks_data, db, fetched,
                   seen, cursor>>

NextPlan == Plan

SpecPlan == InitPlan /\ [][NextPlan]_vars

-----------------------------------------------------------------------------
(* Properties *)

\* every record emitted so far, in emission order: the batches written and the
\* batch of the fold in progress
Emitted == IF pc = "fold" THEN db \o blocks_data ELSE db

\* the block numbers of the events the event source has returned
FetchedBlocks ==
    UNION { { fetched[i].events[j].block_number : j \in 1..Len(fetched[i].events) } :
              i \in 1..Len(fetched) }

\* the number of positions of a list whose block number differs from the one before
Transitions(list) ==
    Cardinality({ i \in 2..Len(list) :
                    list[i].block_number # list[i - 1].block_number })

\* the resume point of line 136 at construction
FirstStartBlock == IF seed = None THEN 0 ELSE seed[1].block

\* C1: once the event source has answered a window with an error, run() hands no
\* further window to the event source.
C1_NoFetchAfterError == [][events_over_attr => fetched' = fetched]_vars

\* C2: when run() has finished, every block number that occurs in the fetched
\* events has exactly one record among those written, and no block number has two.
C2_OneSnapshotPerBlock ==
    pc = "done" =>
        /\ \A b \in FetchedBlocks :
               Cardinality({ i \in 1..Len(db) : db[i].block = b }) = 1
        /\ \A i, j \in 1..Len(db) : db[i].block = db[j].block => i = j

\* C3: a call of calculate_interest_rates on a non-empty list returns at least one
\* record, and as many records as the list has positions whose block number
\* differs from the preceding one, plus one.
C3_SnapshotCount ==
    (pc = "idle" /\ events # <<>>) =>
        /\ Len(blocks_data) >= 1
        /\ Len(blocks_data) = Transitions(events) + 1

\* a fold of three events, skipped and not, over two blocks has returned
C3_Witness ==
    /\ pc = "idle"
    /\ Len(events) = 3
    /\ Transitions(events) = 1
    /\ Len(blocks_data) = 2
    /\ is_skipped(events[2])
    /\ ~is_skipped(events[1])
    /\ ~is_skipped(events[3])

\* C4: the window _get_blocks_bounds returns never ends above latest_block,
\* whatever integers it is given; the windows of run() are such results.
C4_EndWithinLatest == pc = "planned" => end_block <= latest_block

\* the planner has extended a window by a page to end one block below latest_block
C4_Witness ==
    /\ pc = "planned"
    /\ end_block + 1 = latest_block
    /\ end_block > PAGINATION_SIZE

\* C5: folding an event list window by window, each fold seeded with the state the
\* previous one left, ends with the same cumulative collateral and debt for every
\* token as folding the whole list in one pass.
C5_SplitEqualsOnePass ==
    (pc = "idle" /\ cursor = Len(chain) /\ chain # <<>>) =>
        LET one_pass == calculate_interest_rates(seed, chain).last_block_data[1]
        IN  /\ last_block_data[1].collateral = one_pass.collateral
            /\ last_block_data[1].debt = one_pass.debt

\* C6: the first window run() hands to the event source starts at the resume
\* point; with latest_block 5000 and nothing persisted it is (0, 1000).
C6_FirstWindowAtStart ==
    fetched # <<>> =>
        /\ fetched[1].start_block = FirstStartBlock
        /\ (latest_block = 5 * PAGINATION_SIZE /\ seed = None) =>
               (fetched[1].start_block = 0 /\ fetched[1].end_block = PAGINATION_SIZE)

\* the two events of the one-year example: the same token, the same block, one year
\* apart, borrow 0x64 and supply 0x32
OneYearExample ==
    LET shape == [key_name |-> "current_apr", data |-> <<"0x1", <<6, 4>>, <<3, 2>>>>]
    IN  << MkEvent(FoldBlockBase, BaseTs, shape),
           MkEvent(FoldBlockBase, BaseTs + SECONDS_IN_YEAR, shape) >>

\* the rates the handler held before its first fold
SeedRates(side) == IF seed = None THEN ZeroRates ELSE seed[1][side]

\* C7: folding the one-year example returns exactly one record, for the events'
\* block, with the token's debt grown by 0.01 and its collateral by 0.005.
C7_OneYearAccrual ==
    (pc = "idle" /\ events = OneYearExample /\ cursor = 2) =>
        /\ Len(blocks_data) = 1
        /\ blocks_data[1].block = FoldBlockBase
        /\ blocks_data[1].debt["ETH"] - SeedRates("debt")["ETH"]
               = 100 * percents_decimals_shift
        /\ blocks_data[1].collateral["ETH"] - SeedRates("collateral")["ETH"]
               = 50 * percents_decimals_shift

\* C8: the first current_apr event folded for a token leaves the token's
\* cumulative collateral and debt as they were and records the event's timestamp
\* as the token's timestamp.
C8_FirstEventBaselineOnly ==
    [][ (/\ pc = "fold"
         /\ index <= Len(events)
         /\ ~is_skipped(events[index])
         /\ TokenName(events[index].data[1]) \notin seen)
        => LET token_name == TokenName(events[index].data[1])
           IN  /\ interest_rate_state'.collateral[token_name]
                      = interest_rate_state.collateral[token_name]
               /\ interest_rate_state'.debt[token_name]
                      = interest_rate_state.debt[token_name]
               /\ interest_rate_state'.token_timestamps[token_name]
                      = events[index].timestamp ]_vars

\* C9: with non-negative basis points no emitted record carries a smaller
\* cumulative collateral or debt, for any token, than a record emitted earlier or
\* than the persisted record the run started from.
C9_RatesNeverDecrease ==
    /\ \A i, j \in 1..Len(Emitted) : \A t \in Tokens :
           i < j => /\ Emitted[i].collateral[t] <= Emitted[j].collateral[t]
                    /\ Emitted[i].debt[t] <= Emitted[j].debt[t]
    /\ \A i \in 1..Len(Emitted) : \A t \in Tokens :
           /\ SeedRates("collateral")[t] <= Emitted[i].collateral[t]
           /\ SeedRates("debt")[t] <= Emitted[i].debt[t]

\* C10: the block numbers of the records emitted during one run never go down.
C10_BlocksNeverDecrease ==
    \A i, j \in 1..Len(Emitted) : i < j => Emitted[i].block <= Emitted[j].block

\* C11: when the block of the persisted record (0 without one) is latest_block,
\* run() ends at once: no window is handed to the event source, nothing is
\* written and last_block_data stays what it was.
C11_CaughtUpDoesNothing ==
    FirstStartBlock = latest_block =>
        /\ pc \in {"init", "done"}
        /\ fetched = <<>>
        /\ db = <<>>
        /\ last_block_data = seed

\* run() has returned at once although the event source holds events
C11_Witness ==
    /\ pc = "done"
    /\ FirstStartBlock = latest_block
    /\ seed # None
    /\ chain # <<>>

\* C12: a pass of the loop whose window returned no events writes nothing, leaves
\* last_block_data alone and still replaces the window by the planner's next
\* one; a batch is written only after a window that returned events.
C12_EmptyWindowNoWrite ==
    [][ /\ (fetched' # fetched /\ events' = <<>>) =>
              /\ db' = db
              /\ last_block_data' = last_block_data
              /\ pc' = "loop"
              /\ <<start_block', end_block'>>
                     = get_blocks_bounds(start_block, end_block, latest_block)
        /\ db' # db =>
              /\ fetched # <<>>
              /\ fetched[Len(fetched)].events # <<>> ]_vars

\* an empty window was followed by another window, whose events were written
C12_Witness ==
    /\ Len(fetched) = 2
    /\ fetched[1].events = <<>>
    /\ fetched[2].events # <<>>
    /\ fetched[2].end_block # fetched[1].end_block
    /\ db # <<>>
    /\ ~events_over_attr

\* the step folds a current_apr event of a known token
FoldsAprEvent ==
    /\ pc = "fold"
    /\ index <= Len(events)
    /\ events[index].data[1] \in DOMAIN TOKEN_MAPPING
    /\ events[index].key_name = "current_apr"

\* the record held when line 91 is read for the event being folded
HeldRecord == at_boundary(Frame, events[index]).last_block_data

\* the stored timestamp of the token of the event being folded
StoredTimestamp == interest_rate_state.token_timestamps[TOKEN_MAPPING[events[index].data[1]]]

\* the step only records the event's timestamp as its token's baseline
BaselineOnly ==
    LET event == events[index]
        token_name == TOKEN_MAPPING[event.data[1]]
    IN  /\ interest_rate_state'.collateral = interest_rate_state.collateral
        /\ interest_rate_state'.debt = interest_rate_state.debt
        /\ interest_rate_state'.current_timestamp = interest_rate_state.current_timestamp
        /\ interest_rate_state'.token_timestamps =
               [interest_rate_state.token_timestamps EXCEPT ![token_name] = event.timestamp]

\* the step adds the event's changes, over the time since the stored timestamp, to
\* its token's rates
AddsDeltas ==
    LET event == events[index]
        token_name == TOKEN_MAPPING[event.data[1]]
        seconds_passed == event.timestamp - StoredTimestamp
    IN  /\ interest_rate_state'.current_timestamp = event.timestamp
        /\ interest_rate_state'.token_timestamps[token_name] = event.timestamp
        /\ interest_rate_state'.debt[token_name] =
               interest_rate_state.debt[token_name]
                   + current_change(HexToInt(event.data[2]), seconds_passed)
        /\ interest_rate_state'.collateral[token_name] =
               interest_rate_state.collateral[token_name]
                   + current_change(HexToInt(event.data[3]), seconds_passed)

InSomeWindow(b) ==
    \E i \in 1..Len(fetched) : fetched[i].start_block <= b /\ b < fetched[i].end_block

\* C14: each window handed to the event source starts where the one before it ended,
\* and when run() has finished without a fetch error every block from the resume
\* point up to latest_block lies inside a fetched window.
C14_WindowsContiguous ==
    /\ \A i \in 1..(Len(fetched) - 1) : fetched[i + 1].start_block = fetched[i].end_block
    /\ (pc = "done" /\ ~events_over_attr) =>
           \A b \in FirstStartBlock..(latest_block - 1) : InSomeWindow(b)

\* C15: within a call, the event that opens a new block first emits one record that
\* carries the number of the block just completed and the rates as they stood
\* before that event; an event of the same block as the one before emits nothing.
C15_BoundarySnapshot ==
    [][ (pc = "fold" /\ index > 1 /\ index <= Len(events)) =>
            IF events[index].block_number # events[index - 1].block_number
            THEN /\ Len(blocks_data') = Len(blocks_data) + 1
                 /\ SubSeq(blocks_data', 1, Len(blocks_data)) = blocks_data
                 /\ LET entry == blocks_data'[Len(blocks_data')]
                    IN  /\ entry.block = events[index - 1].block_number
                        /\ entry.collateral = interest_rate_state.collateral
                        /\ entry.debt = interest_rate_state.debt
            ELSE blocks_data' = blocks_data ]_vars

\* two tokens' events in one block and a third event in the next: the record of the
\* first block carries the second token's accrual and not the third event's
C15_Witness ==
    /\ pc = "fold"
    /\ index = 4
    /\ events[2].block_number = FoldBlockBase
    /\ events[3].block_number = FoldBlockBase + 1
    /\ Len(blocks_data) = 1
    /\ blocks_data[1].block = FoldBlockBase
    /\ blocks_data[1].debt["USDC"] > SeedRates("debt")["USDC"]
    /\ interest_rate_state.debt["ETH"] > blocks_data[1].debt["ETH"]

\* C16: an event whose token is not in the token table, or whose key name is not
\* "current_apr", leaves the state as it was but for current_block, which becomes
\* the event's block number; when that block number differs from current_block the
\* record of the completed block is emitted first, and otherwise nothing is emitted.
C16_SkippedEventFrame ==
    [][ (/\ pc = "fold"
         /\ index <= Len(events)
         /\ \/ events[index].data[1] \notin DOMAIN TOKEN_MAPPING
            \/ events[index].key_name # "current_apr")
        => /\ interest_rate_state' =
                  [interest_rate_state EXCEPT !.current_block = events[index].block_number]
           /\ IF interest_rate_state.current_block # events[index].block_number
              THEN LET entry == build_interest_rate_model(interest_rate_state, HASHSTACK_ID)
                   IN  /\ blocks_data' = Append(blocks_data, entry)
                       /\ last_block_data' = <<entry>>
              ELSE /\ blocks_data' = blocks_data
                   /\ last_block_data' = last_block_data ]_vars

\* an event of another kind for a known token has opened a new block after a
\* current_apr event: the record of the first block is out, current_block has moved
\* and the token's timestamp is still the first event's
C16_Witness ==
    /\ pc = "fold"
    /\ index = 3
    /\ events[1].key_name = "current_apr"
    /\ events[1].data[1] = "0x1"
    /\ events[2].key_name # "current_apr"
    /\ events[2].data[1] = "0x1"
    /\ events[2].block_number # events[1].block_number
    /\ events[2].timestamp # events[1].timestamp
    /\ Len(blocks_data) = 1
    /\ blocks_data[1].block = events[1].block_number
    /\ interest_rate_state.current_block = events[2].block_number
    /\ interest_rate_state.token_timestamps["ETH"] = events[1].timestamp

\* the most windows run() can fetch: one per page below latest_block, and the
\* closing one
MaxIterations == (latest_block \div PAGINATION_SIZE) + 2

\* C17: run() terminates, whatever the event source answers: it reaches its return,
\* the loop never makes more iterations than there are pages below latest_block
\* plus the closing ones, and each planner step made in the loop either raises the
\* window end by the page size or sets it to latest_block.
C17_RunTerminates ==
    /\ <>(pc = "done")
    /\ [](Len(fetched) <= MaxIterations)
    /\ [][fetched' # fetched =>
            \/ end_block' = end_block + PAGINATION_SIZE
            \/ end_block' = latest_block]_vars

\* run() has returned after three windows, one answered with an error and one with
\* events that were written
C17_Witness ==
    /\ pc = "done"
    /\ Len(fetched) >= 3
    /\ events_over_attr
    /\ db # <<>>

\* C18: with a resume point >= 0 and latest_block above it, every window handed to
\* the event source has start_block <= end_block.
C18_WindowsWellFormed ==
    (FirstStartBlock >= 0 /\ latest_block > FirstStartBlock) =>
        \A i \in 1..Len(fetched) : fetched[i].start_block <= fetched[i].end_block

\* C19: no window is fetched after one whose end has reached latest_block, and when
\* run() has returned from a resume point other than latest_block without a fetch
\* error, the last window it fetched ends at latest_block.
C19_LastWindowEndsAtLatest ==
    /\ \A i \in 1..(Len(fetched) - 1) : fetched[i].end_block < latest_block
    /\ (pc = "done" /\ ~events_over_attr /\ FirstStartBlock # latest_block) =>
           /\ fetched # <<>>
           /\ fetched[Len(fetched)].end_block = latest_block

\* run() has returned without a fetch error after several windows, the last one
\* ending at latest_block, with records written
C19_Witness ==
    /\ pc = "done"
    /\ ~events_over_attr
    /\ Len(fetched) >= 2
    /\ fetched[Len(fetched)].end_block = latest_block
    /\ fetched[1].end_block < latest_block
    /\ db # <<>>

====
